---- MODULE Spec2Model ----
(***************************************************************************)
(* A model of two components of the viewer toolkit:                        *)
(*   - IfcPropertiesManager (packages/core/src/ifc/IfcPropertiesManager),  *)
(*     which edits the entities of a FragmentsGroup model, records the     *)
(*     edited express IDs in changeMap and writes them back with web-ifc;  *)
(*   - SimpleRenderer, which forwards the scene and the camera to the 3D   *)
(*     and the 2D renderer on every update.                                *)
(* Every operation is one action.  The calls an operation makes to the     *)
(* wrapped libraries and the events it triggers are logged, in order, in   *)
(* effects; the operation and its outcome are recorded in lastCall.        *)
(***************************************************************************)
EXTENDS Integers, Sequences, FiniteSets, TLC

\* ----------------------------------------------------------------- bounds
\* The largest express ID the model may hold (caps maxExpressID++).
MaxID == 5
\* The longest HasProperties / RelatedObjects list (caps push).
MaxHandles == 1
\* The longest argument list of a variadic call.
MaxArgs == 1
\* The number of attribute events that may be created (caps new Event()).
MaxEvents == 1

\* ------------------------------------------------------------- the values
Models == {"m1"}
IDs == 1..MaxID
Names == {"a", "b"}
\* The express IDs of the properties a caller edits with setData.
EditedIDs == {3}
\* The <<type, value>> pairs new single-value properties are made of.
PropertyValues == {<<"IfcLabel", "a">>}
\* The attribute names a caller asks a listener for.
AttributeNames == {"Name", "Description", "HasProperties"}
\* The client sizes of the container, and the scenes and cameras of the components.
Sizes == {<<1, 1>>, <<2, 1>>, <<2, 2>>}
Scenes == {"undefined", "scene1", "scene2"}
Cameras == {"undefined", "camera1", "camera2"}

IFCPROPERTYSET == "IFCPROPERTYSET"
IFCRELDEFINESBYPROPERTIES == "IFCRELDEFINESBYPROPERTIES"
IFCOWNERHISTORY == "IFCOWNERHISTORY"
IFCPROPERTYSINGLEVALUE == "IFCPROPERTYSINGLEVALUE"

\* What getProperties answers for an express ID the model has nothing for.
Null == [type |-> "null"]
\* An attribute that is null (IfcPropertySet.Description when none is given).
NullAttr == [isNull |-> TRUE]
\* The attributes of the schema that are arrays.
ArrayAttributes == {"HasProperties", "RelatedObjects"}

\* new WEBIFC.Handle(id)
Handle(id) == [value |-> id]

\* An attribute object { value }: the own data property "value".  listener = 0
\* while "value" is a data property; once setAttributeListener has redefined
\* it as an accessor, listener is the event its setter triggers and the value
\* lives in _value.
Attr(v) == [value |-> v, _value |-> "undefined", listener |-> 0]

\* new IfcPropertySingleValue(name, null, new <type>(value), null) with its expressID
Property(id, type, name, value) ==
    [type |-> IFCPROPERTYSINGLEVALUE, expressID |-> id, Name |-> Attr(name),
     NominalValue |-> [type |-> type, value |-> value,
                       _value |-> "undefined", listener |-> 0]]

SeqsUpTo(S, n) == UNION {[1..k -> S] : k \in 0..n}
NonEmptySeqsUpTo(S, n) == UNION {[1..k -> S] : k \in 1..n}

VARIABLES
    props,               \* model -> express ID -> entity: the FragmentsGroup properties
    maxExpressID,        \* model -> model.ifcMetadata.maxExpressID
    changeMap,           \* model uuid -> the Set of changed express IDs
    attributeListeners,  \* model uuid -> express ID -> attribute name -> event
    events,              \* the number of attribute events created so far
    resolved,            \* <<model, express ID, attribute>> -> the events setAttributeListener returned
    scene,               \* components.scene?.get()
    camera,              \* components.camera?.get()
    container,           \* <<clientWidth, clientHeight>> of the renderer's container
    size3D,              \* the size set on the WebGL renderer
    size2D,              \* the size set on the CSS2D renderer
    lastCall,            \* the last call, its arguments and its outcome
    effects              \* what the last call did to the wrapped APIs and events

vars == <<props, maxExpressID, changeMap, attributeListeners, events, resolved,
          scene, camera, container, size3D, size2D, lastCall, effects>>

\* What the properties manager's editing methods leave alone.
others == <<attributeListeners, events, resolved, scene, camera, container, size3D, size2D>>
\* The state of the renderer and of the components it reads.
rendererVars == <<scene, camera, container, size3D, size2D>>

\* ------------------------------------------------------ the loaded model
\* A model as the IFC loader leaves it: an owner history and a property set
\* with one property; the set is related to no element yet.
InitialProperties ==
    [id \in IDs |->
        CASE id = 1 -> [type |-> IFCOWNERHISTORY, expressID |-> 1]
          [] id = 2 -> [type |-> IFCPROPERTYSET, expressID |-> 2,
                        OwnerHistory |-> Handle(1), Name |-> Attr("a"),
                        Description |-> NullAttr,
                        HasProperties |-> <<Handle(3)>>]
          [] id = 3 -> Property(3, "IfcLabel", "a", "a")
          [] OTHER -> Null]

\* model.ifcMetadata.maxExpressID of the loaded model: its largest express ID.
InitialMaxExpressID ==
    CHOOSE id \in IDs :
        /\ InitialProperties[id] # Null
        /\ \A other \in IDs : InitialProperties[other] # Null => other <= id

\* ------------------------------------------- the wrapped FragmentsGroup
\* The operations below thread a record s = [props, maxExpressID, changeMap,
\* effects] through the statements of a method.

\* model.getProperties(expressID)
GetProperties(s, model, expressID) ==
    IF expressID \in IDs THEN s.props[model][expressID] ELSE Null

\* model.setProperties(expressID, data); data = null removes the entity.
SetProperties(s, model, expressID, data) ==
    [s EXCEPT !.props[model][expressID] = data]

\* model.getAllPropertiesOfType(type): the express IDs of that type.
GetAllPropertiesOfType(s, model, type) ==
    {id \in IDs : s.props[model][id].type = type}

Max(S) == CHOOSE x \in S : \A y \in S : y <= x
Min(S) == CHOOSE x \in S : \A y \in S : x <= y

\* IfcPropertiesUtils.getPsetRel(model, psetID): the express ID of the
\* IfcRelDefinesByProperties whose RelatingPropertyDefinition is the Pset (the
\* last one in ascending ID order), 0 (null) when there is none.
GetPsetRel(s, model, psetID) ==
    LET rels == {id \in GetAllPropertiesOfType(s, model, IFCRELDEFINESBYPROPERTIES) :
                    s.props[model][id].RelatingPropertyDefinition.value = psetID}
    IN IF GetProperties(s, model, psetID) = Null \/ rels = {} THEN 0 ELSE Max(rels)

\* A call of the wrapped IfcLoader / web-ifc API, logged in order.
Do(s, call, args) == [s EXCEPT !.effects = Append(@, [call |-> call, args |-> args])]

\* event.trigger(payload) of one of the manager's events.  No handler is
\* registered on them here, so triggering leaves the state as it is.
Trigger(s, event, payload) == s

\* ------------------------------------------------ IfcPropertiesManager
\* Set.add
SetAdd(set, id) == set \cup {id}

RECURSIVE RegisterIds(_, _, _)
RegisterIds(s, model, expressID) ==
    IF expressID = <<>> THEN s
    ELSE LET id == Head(expressID)
             s1 == [s EXCEPT !.changeMap[model] = SetAdd(@, id)]
             s2 == Trigger(s1, "onDataChanged", <<model, id>>)
         IN RegisterIds(s2, model, Tail(expressID))

\* registerChange(model, ...expressID)
RegisterChange(s, model, expressID) ==
    LET s0 == IF model \notin DOMAIN s.changeMap
              THEN [s EXCEPT !.changeMap = (model :> {}) @@ @]
              ELSE s
    IN RegisterIds(s0, model, expressID)

\* data.expressID; 0 stands for the missing property (undefined is falsy, as 0 is).
ExpressIDOf(data) == IF "expressID" \in DOMAIN data THEN data.expressID ELSE 0

\* setData(model, ...dataToSave)
RECURSIVE SetDataOp(_, _, _)
SetDataOp(s, model, dataToSave) ==
    IF dataToSave = <<>> THEN s
    ELSE LET data == Head(dataToSave)
             expressID == ExpressIDOf(data)
         IN IF expressID = 0
            THEN SetDataOp(s, model, Tail(dataToSave))
            ELSE SetDataOp(
                    RegisterChange(SetProperties(s, model, expressID, data),
                                   model, <<expressID>>),
                    model, Tail(dataToSave))

\* increaseMaxID(model): the state after the increment; the ID is its maxExpressID.
IncreaseMaxID(s, model) == [s EXCEPT !.maxExpressID[model] = @ + 1]

\* getOwnerHistory(model): the handle's ID, 0 when the method throws.
GetOwnerHistory(s, model) ==
    LET ownerHistories == GetAllPropertiesOfType(s, model, IFCOWNERHISTORY)
    IN IF ownerHistories = {} THEN 0 ELSE Min(ownerHistories)

\* newPset(model, name): the state after the call (unchanged when it throws).
NewPsetOp(s, model, name) ==
    LET ownerHistory == GetOwnerHistory(s, model)
        s1 == IncreaseMaxID(s, model)
        pset == [type |-> IFCPROPERTYSET, expressID |-> s1.maxExpressID[model],
                 OwnerHistory |-> Handle(ownerHistory), Name |-> Attr(name),
                 Description |-> NullAttr, HasProperties |-> <<>>]
        s2 == IncreaseMaxID(s1, model)
        rel == [type |-> IFCRELDEFINESBYPROPERTIES, expressID |-> s2.maxExpressID[model],
                OwnerHistory |-> Handle(ownerHistory), RelatedObjects |-> <<>>,
                RelatingPropertyDefinition |-> Handle(pset.expressID)]
    IN IF ownerHistory = 0 THEN s ELSE SetDataOp(s2, model, <<pset, rel>>)

\* newSingleProperty(model, type, name, value)
NewSinglePropertyOp(s, model, type, name, value) ==
    LET s1 == IncreaseMaxID(s, model)
        prop == Property(s1.maxExpressID[model], type, name, value)
    IN SetDataOp(s1, model, <<prop>>)

\* for (const propHandle of pset.HasProperties) setProperties(propHandle.value, null)
RECURSIVE RemoveProps(_, _, _)
RemoveProps(s, model, handles) ==
    IF handles = <<>> THEN s
    ELSE RemoveProps(SetProperties(s, model, Head(handles).value, Null),
                     model, Tail(handles))

\* The body of removePset's loop for one express ID.
RemoveOnePset(s, model, expressID) ==
    LET pset == GetProperties(s, model, expressID)
        relID == GetPsetRel(s, model, expressID)
        s1 == IF relID # 0
              THEN RegisterChange(SetProperties(s, model, relID, Null), model, <<relID>>)
              ELSE s
        s2 == RemoveProps(s1, model, pset.HasProperties)
        s3 == SetProperties(s2, model, expressID, Null)
        s4 == Trigger(s3, "onPsetRemoved", <<model, expressID>>)
    IN IF pset.type # IFCPROPERTYSET THEN s
       ELSE RegisterChange(s4, model, <<expressID>>)

\* removePset(model, ...psetID)
RECURSIVE RemovePsetOp(_, _, _)
RemovePsetOp(s, model, psetID) ==
    IF psetID = <<>> THEN s
    ELSE RemovePsetOp(RemoveOnePset(s, model, Head(psetID)), model, Tail(psetID))

\* Whether removePset meets, at some express ID of psetID, an entity that is
\* not an IFCPROPERTYSET.
RECURSIVE NotPsetMet(_, _, _)
NotPsetMet(s, model, psetID) ==
    /\ psetID # <<>>
    /\ \/ GetProperties(s, model, Head(psetID)).type # IFCPROPERTYSET
       \/ NotPsetMet(RemoveOnePset(s, model, Head(psetID)), model, Tail(psetID))

\* Whether removePset meets a Pset for which getPsetRel finds no relation.
RECURSIVE NoRelationMet(_, _, _)
NoRelationMet(s, model, psetID) ==
    /\ psetID # <<>>
    /\ \/ /\ GetProperties(s, model, Head(psetID)).type = IFCPROPERTYSET
          /\ GetPsetRel(s, model, Head(psetID)) = 0
       \/ NoRelationMet(RemoveOnePset(s, model, Head(psetID)), model, Tail(psetID))

\* Array.prototype.filter((handle) => handle.value !== propID)
RECURSIVE FilterOut(_, _)
FilterOut(handles, propID) ==
    IF handles = <<>> THEN <<>>
    ELSE IF Head(handles).value # propID
         THEN <<Head(handles)>> \o FilterOut(Tail(handles), propID)
         ELSE FilterOut(Tail(handles), propID)

\* removePsetProp(model, psetID, propID)
RemovePsetPropOp(s, model, psetID, propID) ==
    LET pset == GetProperties(s, model, psetID)
        prop == GetProperties(s, model, propID)
        s1 == [s EXCEPT !.props[model][psetID].HasProperties = FilterOut(@, propID)]
        s2 == SetProperties(s1, model, propID, Null)
    IN IF pset = Null \/ prop = Null THEN s
       ELSE IF pset.type # IFCPROPERTYSET THEN s
       ELSE RegisterChange(s2, model, <<psetID, propID>>)

\* The loop of addElementToPset: push a handle and trigger onElementToPset.
RECURSIVE PushElements(_, _, _, _, _)
PushElements(s, model, psetID, relID, elementID) ==
    IF elementID = <<>> THEN s
    ELSE LET expressID == Head(elementID)
             s1 == [s EXCEPT !.props[model][relID].RelatedObjects =
                                  Append(@, Handle(expressID))]
             s2 == Trigger(s1, "onElementToPset", <<model, psetID, expressID>>)
         IN PushElements(s2, model, psetID, relID, Tail(elementID))

\* addElementToPset(model, psetID, ...elementID)
AddElementToPsetOp(s, model, psetID, elementID) ==
    LET relID == GetPsetRel(s, model, psetID)
    IN IF relID = 0 THEN s
       ELSE IF GetProperties(s, model, relID) = Null THEN s
       ELSE RegisterChange(PushElements(s, model, psetID, relID, elementID),
                           model, <<psetID>>)

\* handle === expressID: a Handle object is never strictly equal to a number.
StrictEquals(handle, expressID) == FALSE

\* Array.prototype.includes
Includes(handles, expressID) ==
    \E i \in 1..Len(handles) : StrictEquals(handles[i], expressID)

\* The loop of addPropToPset.
RECURSIVE PushProps(_, _, _, _)
PushProps(s, model, psetID, propID) ==
    IF propID = <<>> THEN s
    ELSE LET expressID == Head(propID)
             s1 == [s EXCEPT !.props[model][psetID].HasProperties =
                                  Append(@, Handle(expressID))]
             s2 == Trigger(s1, "onPropToPset", <<model, psetID, expressID>>)
         IN IF Includes(s.props[model][psetID].HasProperties, expressID)
            THEN PushProps(s, model, psetID, Tail(propID))
            ELSE PushProps(s2, model, psetID, Tail(propID))

\* addPropToPset throws a TypeError when the entity has no HasProperties array
\* and there is a property to add (pset.HasProperties.includes of undefined).
AddPropToPsetThrows(s, model, psetID, propID) ==
    LET pset == GetProperties(s, model, psetID)
    IN pset # Null /\ "HasProperties" \notin DOMAIN pset /\ propID # <<>>

\* addPropToPset(model, psetID, ...propID)
AddPropToPsetOp(s, model, psetID, propID) ==
    IF GetProperties(s, model, psetID) = Null THEN s
    ELSE IF AddPropToPsetThrows(s, model, psetID, propID) THEN s
    ELSE RegisterChange(PushProps(s, model, psetID, propID), model, <<psetID>>)

\* saveToIfc's loop with the deleted entities skipped instead of DeleteLine'd.
RECURSIVE WriteChangesSkippingDeleted(_, _, _, _)
WriteChangesSkippingDeleted(s, model, modelID, changes) ==
    IF changes = {} THEN s
    ELSE LET expressID == Min(changes)
             data == GetProperties(s, model, expressID)
         IN IF data = Null
            THEN WriteChangesSkippingDeleted(s, model, modelID, changes \ {expressID})
            ELSE WriteChangesSkippingDeleted(Do(s, "WriteLine", <<modelID, data>>),
                                             model, modelID, changes \ {expressID})

\* The loop of saveToIfc over the changed IDs.  A Set is iterated once per
\* member; the members are taken here in ascending order.
RECURSIVE WriteChanges(_, _, _, _)
WriteChanges(s, model, modelID, changes) ==
    IF changes = {} THEN s
    ELSE LET expressID == Min(changes)
             data == GetProperties(s, model, expressID)
         IN IF data = Null
            THEN WriteChanges(Do(s, "DeleteLine", <<modelID, expressID>>),
                              model, modelID, changes \ {expressID})
            ELSE WriteChanges(Do(s, "WriteLine", <<modelID, data>>),
                              model, modelID, changes \ {expressID})

\* saveToIfc(model, ifcToSaveOn); modelID is what readIfcFile answers.
SaveToIfcOp(s, model, modelID) ==
    LET changes == IF model \in DOMAIN s.changeMap THEN s.changeMap[model] ELSE {}
        s1 == Do(s, "readIfcFile", <<modelID>>)
        s2 == WriteChanges(s1, model, modelID, changes)
        s3 == Do(s2, "SaveModel", <<modelID>>)
        s4 == Do(s3, "CloseModel", <<modelID>>)
    IN Do(s4, "cleanUp", <<>>)

\* ------------------------------------------------------------ the actions
\* The state at the start of a call: the log of the call is empty.
Start == [props |-> props, maxExpressID |-> maxExpressID,
          changeMap |-> changeMap, effects |-> <<>>]

\* The state a call leaves.
Finish(s) ==
    /\ props' = s.props
    /\ maxExpressID' = s.maxExpressID
    /\ changeMap' = s.changeMap
    /\ effects' = s.effects

Init ==
    /\ props = [model \in Models |-> InitialProperties]
    /\ maxExpressID = [model \in Models |-> InitialMaxExpressID]
    /\ changeMap = <<>>
    /\ attributeListeners = <<>>
    /\ events = 0
    /\ resolved = <<>>
    /\ scene = "undefined"
    /\ camera = "undefined"
    /\ container = <<1, 1>>
    /\ size3D = container
    /\ size2D = container
    /\ lastCall = [op |-> "constructor", threw |-> FALSE]
    /\ effects = <<>>

\* The objects a caller hands to setData: one without expressID, a new
\* property object for an ID, or the object the model already holds for the ID.
DataObjects(model) ==
    {[type |-> IFCPROPERTYSINGLEVALUE, Name |-> Attr("a")]}
        \cup {Property(id, "IfcLabel", "a", "b") : id \in EditedIDs}
        \cup {props[model][id] : id \in {i \in EditedIDs : props[model][i] # Null}}

\* The express IDs of the entities of a type: what a caller picks the Pset
\* to change and the properties to add from.
OfType(model, type) == {id \in IDs : props[model][id].type = type}

\* The express IDs a caller relates Psets to: the entities that are no Pset,
\* property or relation.
Elements(model) ==
    {id \in IDs : props[model][id].type \notin
        {"null", IFCPROPERTYSET, IFCPROPERTYSINGLEVALUE, IFCRELDEFINESBYPROPERTIES}}

SetData(model) ==
    \E dataToSave \in NonEmptySeqsUpTo(DataObjects(model), MaxArgs) :
        /\ Finish(SetDataOp(Start, model, dataToSave))
        /\ lastCall' = [op |-> "setData", model |-> model,
                        missingID |-> (\E i \in 1..Len(dataToSave) :
                                          "expressID" \notin DOMAIN dataToSave[i]),
                        threw |-> FALSE]
        /\ UNCHANGED others

NewPset(model) ==
    \E name \in {"a"} :
        /\ maxExpressID[model] + 2 <= MaxID
        /\ Finish(NewPsetOp(Start, model, name))
        /\ lastCall' = [op |-> "newPset", model |-> model,
                        threw |-> (GetOwnerHistory(Start, model) = 0)]
        /\ UNCHANGED others

\* newSingleStringProperty, newSingleNumericProperty and
\* newSingleBooleanProperty: each is newSingleProperty with its type and value.
NewSingleProperty(model) ==
    \E tv \in PropertyValues, name \in {"a"} :
        /\ maxExpressID[model] + 1 <= MaxID
        /\ Finish(NewSinglePropertyOp(Start, model, tv[1], name, tv[2]))
        /\ lastCall' = [op |-> "newSingleProperty", model |-> model, threw |-> FALSE]
        /\ UNCHANGED others

RemovePset(model) ==
    \E psetID \in NonEmptySeqsUpTo(IDs, MaxArgs) :
        /\ Finish(RemovePsetOp(Start, model, psetID))
        /\ lastCall' = [op |-> "removePset", model |-> model,
                        notPset |-> NotPsetMet(Start, model, psetID),
                        noRelation |-> NoRelationMet(Start, model, psetID),
                        threw |-> FALSE]
        /\ UNCHANGED others

RemovePsetProp(model) ==
    \E psetID \in OfType(model, IFCPROPERTYSET), propID \in IDs :
        /\ Finish(RemovePsetPropOp(Start, model, psetID, propID))
        /\ lastCall' = [op |-> "removePsetProp", model |-> model, threw |-> FALSE]
        /\ UNCHANGED others

AddElementToPset(model) ==
    \E psetID \in OfType(model, IFCPROPERTYSET), elementID \in SeqsUpTo(Elements(model), MaxArgs) :
        /\ LET relID == GetPsetRel(Start, model, psetID)
           IN relID # 0 =>
                Len(props[model][relID].RelatedObjects) + Len(elementID) <= MaxHandles
        /\ Finish(AddElementToPsetOp(Start, model, psetID, elementID))
        /\ lastCall' = [op |-> "addElementToPset", model |-> model, threw |-> FALSE]
        /\ UNCHANGED others

AddPropToPset(model) ==
    \E psetID \in OfType(model, IFCPROPERTYSET),
       propID \in SeqsUpTo(OfType(model, IFCPROPERTYSINGLEVALUE), MaxArgs) :
        /\ "HasProperties" \in DOMAIN props[model][psetID] =>
                Len(props[model][psetID].HasProperties) + Len(propID) <= MaxHandles
        /\ Finish(AddPropToPsetOp(Start, model, psetID, propID))
        /\ lastCall' = [op |-> "addPropToPset", model |-> model,
                        threw |-> AddPropToPsetThrows(Start, model, psetID, propID)]
        /\ UNCHANGED others

SaveToIfc(model) ==
    \E modelID \in {0} :
        /\ Finish(SaveToIfcOp(Start, model, modelID))
        /\ lastCall' = [op |-> "saveToIfc", model |-> model, modelID |-> modelID,
                        threw |-> FALSE]
        /\ UNCHANGED others

\* dispose()
Dispose ==
    /\ attributeListeners' = <<>>
    /\ changeMap' = <<>>
    /\ effects' = <<>>
    /\ lastCall' = [op |-> "dispose", threw |-> FALSE]
    /\ UNCHANGED <<props, maxExpressID, events, resolved, rendererVars>>

NextManager ==
    \/ \E model \in Models : SetData(model)
    \/ \E model \in Models : NewPset(model)
    \/ \E model \in Models : NewSingleProperty(model)
    \/ \E model \in Models : RemovePset(model)
    \/ \E model \in Models : RemovePsetProp(model)
    \/ \E model \in Models : AddElementToPset(model)
    \/ \E model \in Models : AddPropToPset(model)
    \/ \E model \in Models : SaveToIfc(model)

SpecManager == Init /\ [][NextManager]_vars

\* ------------------------------------------------- attribute listeners
\* Reading attribute.value: the data property, or the getter's this._value.
Read(attribute) ==
    IF attribute.listener = 0 THEN attribute.value ELSE attribute._value

\* Object.defineProperty(attribute, "value", { get, set }) with a setter that
\* triggers event: the data property is gone, _value is what it was.
DefineProperty(attribute, event) ==
    [attribute EXCEPT !.value = "undefined", !.listener = event]

\* attribute.value = value: the data property is written, or the setter stores
\* the value in _value (and triggers its event, see TriggeredBy).
Assign(attribute, value) ==
    IF attribute.listener = 0
    THEN [attribute EXCEPT !.value = value]
    ELSE [attribute EXCEPT !._value = value]

\* What assigning value to the attribute triggers.
TriggeredBy(attribute, value) ==
    IF attribute.listener = 0 THEN <<>>
    ELSE <<[call |-> "trigger", args |-> <<attribute.listener, value>>]>>

\* attributeListeners[model.uuid][expressID]?.[attributeName], 0 when absent.
ExistingListener(listeners, model, expressID, attributeName) ==
    IF /\ model \in DOMAIN listeners
       /\ expressID \in DOMAIN listeners[model]
       /\ attributeName \in DOMAIN listeners[model][expressID]
    THEN listeners[model][expressID][attributeName]
    ELSE 0

\* if (!this.attributeListeners[model.uuid]) this.attributeListeners[model.uuid] = {}
WithModel(listeners, model) ==
    IF model \in DOMAIN listeners THEN listeners ELSE (model :> <<>>) @@ listeners

\* attributeListeners[model.uuid][expressID][attributeName] = event
WithListener(listeners, model, expressID, attributeName, event) ==
    LET ofModel == listeners[model]
        ofEntity == IF expressID \in DOMAIN ofModel THEN ofModel[expressID] ELSE <<>>
    IN (model :> ((expressID :> ((attributeName :> event) @@ ofEntity)) @@ ofModel))
           @@ listeners

\* Why setAttributeListener throws for the entity and the attribute, "" when
\* it does not.
ListenerError(entity, attributeName) ==
    IF entity = Null THEN "no entity"
    ELSE IF \/ attributeName \in ArrayAttributes
            \/ attributeName \notin DOMAIN entity
            \/ entity[attributeName] = NullAttr
         THEN "array or null"
    ELSE IF Read(entity[attributeName]) = "undefined" THEN "bad handle"
    ELSE ""

\* The attribute after setAttributeListener has installed event on it: the
\* accessor is defined and the value read before is assigned back through it.
Install(attribute, event) ==
    Assign(DefineProperty(attribute, event), Read(attribute))

\* The events setAttributeListener has returned for an attribute.
ResolvedFor(model, expressID, attributeName) ==
    IF <<model, expressID, attributeName>> \in DOMAIN resolved
    THEN resolved[<<model, expressID, attributeName>>]
    ELSE {}

\* setAttributeListener(model, expressID, attributeName)
SetAttributeListener(model) ==
    \E expressID \in IDs, attributeName \in AttributeNames :
        LET existingListener ==
                ExistingListener(attributeListeners, model, expressID, attributeName)
            entity == props[model][expressID]
            error == ListenerError(entity, attributeName)
            event == events + 1
            key == <<model, expressID, attributeName>>
        IN IF existingListener # 0
           THEN /\ lastCall' = [op |-> "setAttributeListener", model |-> model,
                                expressID |-> expressID, attributeName |-> attributeName,
                                installed |-> FALSE, event |-> existingListener,
                                threw |-> FALSE]
                /\ resolved' = (key :> (ResolvedFor(model, expressID, attributeName)
                                            \cup {existingListener})) @@ resolved
                /\ effects' = <<>>
                /\ UNCHANGED <<props, maxExpressID, changeMap, attributeListeners,
                               events, rendererVars>>
           ELSE IF error # ""
           THEN /\ attributeListeners' = WithModel(attributeListeners, model)
                /\ lastCall' = [op |-> "setAttributeListener", model |-> model,
                                expressID |-> expressID, attributeName |-> attributeName,
                                installed |-> FALSE, event |-> 0, threw |-> TRUE]
                /\ effects' = <<>>
                /\ UNCHANGED <<props, maxExpressID, changeMap, events, resolved,
                               rendererVars>>
           ELSE /\ events < MaxEvents
                /\ events' = event
                /\ props' = [props EXCEPT ![model][expressID][attributeName] =
                                              Install(@, event)]
                /\ effects' = TriggeredBy(DefineProperty(entity[attributeName], event),
                                          Read(entity[attributeName]))
                /\ attributeListeners' =
                       WithListener(WithModel(attributeListeners, model),
                                    model, expressID, attributeName, event)
                /\ resolved' = (key :> (ResolvedFor(model, expressID, attributeName)
                                            \cup {event})) @@ resolved
                /\ lastCall' = [op |-> "setAttributeListener", model |-> model,
                                expressID |-> expressID, attributeName |-> attributeName,
                                installed |-> TRUE, event |-> event, threw |-> FALSE]
                /\ UNCHANGED <<maxExpressID, changeMap, rendererVars>>

\* A caller's assignment  entity[attributeName].value = value  on the entity
\* the model holds for expressID.
AssignValue(model) ==
    \E expressID \in IDs, value \in Names :
        LET entity == props[model][expressID]
        IN /\ entity # Null
           /\ "Name" \in DOMAIN entity
           /\ props' = [props EXCEPT ![model][expressID].Name = Assign(@, value)]
           /\ effects' = TriggeredBy(entity.Name, value)
           /\ lastCall' = [op |-> "assign", model |-> model, expressID |-> expressID,
                           attributeName |-> "Name", value |-> value, threw |-> FALSE]
           /\ UNCHANGED <<maxExpressID, changeMap, attributeListeners, events,
                          resolved, rendererVars>>

NextListener ==
    \/ \E model \in Models : SetAttributeListener(model)
    \/ \E model \in Models : AssignValue(model)
    \/ \E model \in Models : SetData(model)
    \/ Dispose

SpecListener == Init /\ [][NextListener]_vars

\* ------------------------------------------------------- SimpleRenderer
\* update with the early return dropped: it renders and triggers afterUpdate
\* whatever the scene and the camera are.
UpdateOpWithoutReturn(theScene, theCamera) ==
    <<[call |-> "beforeUpdate.trigger", args |-> <<>>],
      [call |-> "renderer.render", args |-> <<theScene, theCamera>>],
      [call |-> "renderer2D.render", args |-> <<theScene, theCamera>>],
      [call |-> "afterUpdate.trigger", args |-> <<>>]>>

\* update(_delta): what the call triggers and renders, in order.
UpdateOp(theScene, theCamera) ==
    LET before == <<[call |-> "beforeUpdate.trigger", args |-> <<>>]>>
        render == <<[call |-> "renderer.render", args |-> <<theScene, theCamera>>],
                    [call |-> "renderer2D.render", args |-> <<theScene, theCamera>>],
                    [call |-> "afterUpdate.trigger", args |-> <<>>]>>
    IN IF theScene = "undefined" \/ theCamera = "undefined"
       THEN before
       ELSE before \o render

Update ==
    /\ effects' = UpdateOp(scene, camera)
    /\ lastCall' = [op |-> "update", threw |-> FALSE]
    /\ UNCHANGED <<props, maxExpressID, changeMap, attributeListeners, events,
                   resolved, rendererVars>>

\* resize(): both renderers take the container's client size.
Resize ==
    /\ size3D' = container
    /\ size2D' = container
    /\ effects' = <<[call |-> "renderer.setSize", args |-> container],
                    [call |-> "renderer2D.setSize", args |-> container]>>
    /\ lastCall' = [op |-> "resize", threw |-> FALSE]
    /\ UNCHANGED <<props, maxExpressID, changeMap, attributeListeners, events,
                   resolved, scene, camera, container>>

\* The application sets or replaces the scene and camera components, and the
\* page lays the container out anew.
SetScene ==
    \E s \in Scenes :
        /\ scene' = s
        /\ lastCall' = [op |-> "components.scene", threw |-> FALSE]
        /\ effects' = <<>>
        /\ UNCHANGED <<props, maxExpressID, changeMap, attributeListeners, events,
                       resolved, camera, container, size3D, size2D>>

SetCamera ==
    \E c \in Cameras :
        /\ camera' = c
        /\ lastCall' = [op |-> "components.camera", threw |-> FALSE]
        /\ effects' = <<>>
        /\ UNCHANGED <<props, maxExpressID, changeMap, attributeListeners, events,
                       resolved, scene, container, size3D, size2D>>

Layout ==
    \E size \in Sizes :
        /\ container' = size
        /\ lastCall' = [op |-> "layout", threw |-> FALSE]
        /\ effects' = <<>>
        /\ UNCHANGED <<props, maxExpressID, changeMap, attributeListeners, events,
                       resolved, scene, camera, size3D, size2D>>

NextRenderer ==
    \/ Update
    \/ Resize
    \/ SetScene
    \/ SetCamera
    \/ Layout

SpecRenderer == Init /\ [][NextRenderer]_vars

\* ------------------------------------------------------------ the claims
\* The positions of the log of the last call that hold a call of that name.
Calls(name) == {i \in 1..Len(effects) : effects[i].call = name}

EditOps == {"setData", "newPset", "newSingleProperty", "removePset",
            "removePsetProp", "addElementToPset", "addPropToPset"}

\* C1: every editing call leaves in changeMap[model.uuid] the express ID of
\* every entity it created, modified or deleted.  No call between two edits
\* takes an ID out of changeMap (SpecManager has no dispose), so this is the
\* claim for any sequence of edits.
C1_EveryEditIsRegistered ==
    [][lastCall'.op \in EditOps =>
          \A model \in Models : \A id \in IDs :
              props'[model][id] # props[model][id] =>
                  /\ model \in DOMAIN changeMap'
                  /\ id \in changeMap'[model]]_vars

\* The changed IDs of the model saveToIfc was last called for.
SavedChanges ==
    IF lastCall.model \in DOMAIN changeMap THEN changeMap[lastCall.model] ELSE {}

\* The positions of the log where the line of an express ID was deleted, and
\* where it was written with the properties the model holds for it.
DeletedAt(id) ==
    {i \in Calls("DeleteLine") : effects[i].args = <<lastCall.modelID, id>>}

WrittenAt(id) ==
    {i \in Calls("WriteLine") :
        effects[i].args = <<lastCall.modelID, props[lastCall.model][id]>>}

\* C2: saveToIfc handles every changed express ID exactly once, with DeleteLine
\* when the model has no properties for it and with WriteLine of the current
\* properties otherwise; nothing else is deleted or written; SaveModel comes
\* after all of them and is followed by CloseModel of the same model and by
\* cleanUp.  Without an entry in changeMap only the last three calls are made.
C2_SaveHandlesEachChangeOnce ==
    lastCall.op = "saveToIfc" =>
        LET n == Cardinality(SavedChanges)
        IN /\ \A id \in SavedChanges :
                IF props[lastCall.model][id] = Null
                THEN Cardinality(DeletedAt(id)) = 1 /\ WrittenAt(id) = {}
                ELSE Cardinality(WrittenAt(id)) = 1 /\ DeletedAt(id) = {}
           /\ Cardinality(Calls("DeleteLine") \cup Calls("WriteLine")) = n
           /\ Calls("DeleteLine") \cup Calls("WriteLine") \subseteq 2..(n + 1)
           /\ Len(effects) = n + 4
           /\ effects[1] = [call |-> "readIfcFile", args |-> <<lastCall.modelID>>]
           /\ effects[n + 2] = [call |-> "SaveModel", args |-> <<lastCall.modelID>>]
           /\ effects[n + 3] = [call |-> "CloseModel", args |-> <<lastCall.modelID>>]
           /\ effects[n + 4] = [call |-> "cleanUp", args |-> <<>>]

\* C2 happens: a save that deletes a line and writes another.
C2_SaveDeletesAndWrites ==
    /\ lastCall.op = "saveToIfc"
    /\ Calls("DeleteLine") # {}
    /\ Calls("WriteLine") # {}

\* C3: update triggers beforeUpdate first; with a scene and a camera the 3D
\* renderer and then the 2D renderer render that scene and camera once each and
\* afterUpdate is triggered last; without one of them nothing is rendered and
\* afterUpdate is not triggered.
C3_UpdateOrder ==
    lastCall.op = "update" =>
        /\ Calls("beforeUpdate.trigger") = {1}
        /\ IF scene # "undefined" /\ camera # "undefined"
           THEN /\ Calls("renderer.render") = {2}
                /\ Calls("renderer2D.render") = {3}
                /\ effects[2].args = <<scene, camera>>
                /\ effects[3].args = <<scene, camera>>
                /\ Calls("afterUpdate.trigger") = {4}
                /\ Len(effects) = 4
           ELSE /\ Calls("renderer.render") = {}
                /\ Calls("renderer2D.render") = {}
                /\ Calls("afterUpdate.trigger") = {}

\* C3 happens: an update with a scene and a camera has rendered.
C3_UpdateRendered ==
    /\ lastCall.op = "update"
    /\ scene # "undefined"
    /\ camera # "undefined"
    /\ Calls("renderer2D.render") # {}

\* C4: once setAttributeListener has returned event E for an attribute, every
\* assignment to the attribute's value triggers E exactly once with the value
\* assigned, and the attribute reads as the value assigned last; installing
\* the listener keeps the value the attribute had.
C4_ListenerFollowsEveryAssignment ==
    [][/\ lastCall'.op = "assign" =>
            /\ \A e \in ResolvedFor(lastCall'.model, lastCall'.expressID,
                                    lastCall'.attributeName) :
                   Cardinality({i \in 1..Len(effects') :
                       effects'[i] = [call |-> "trigger",
                                      args |-> <<e, lastCall'.value>>]}) = 1
            /\ Read(props'[lastCall'.model][lastCall'.expressID][lastCall'.attributeName])
                   = lastCall'.value
       /\ (lastCall'.op = "setAttributeListener" /\ lastCall'.installed) =>
            Read(props'[lastCall'.model][lastCall'.expressID][lastCall'.attributeName])
                = Read(props[lastCall'.model][lastCall'.expressID][lastCall'.attributeName])
      ]_vars

\* C5: setData throws when an object of dataToSave has no expressID.
C5_SetDataThrowsWithoutExpressID ==
    (lastCall.op = "setData" /\ lastCall.missingID) => lastCall.threw

\* C6: removePset throws when an entity to remove is not an IFCPROPERTYSET, and
\* when no relation is found for a Pset.
C6_RemovePsetThrows ==
    (lastCall.op = "removePset" /\ (lastCall.notPset \/ lastCall.noRelation))
        => lastCall.threw

====
